---------------------------- MODULE Spec2Model ----------------------------
(***************************************************************************)
(* Dimensional algebra of numbat: units as products of (prefix, unit_id,   *)
(* exponent) factors with rational exponents, canonicalization, conversion *)
(* between compatible units, full_simplify, and quantity arithmetic.       *)
(*                                                                         *)
(* All operations are pure.  Every specification below draws the operands  *)
(* in its initial states and has one action per operation, which stores    *)
(* the operation's result in `out`.  Numbers are exact rationals.          *)
(***************************************************************************)
EXTENDS Integers, Sequences, FiniteSets, TLC

VARIABLES pc, qa, qb, qc, out

vars == <<pc, qa, qb, qc, out>>

-----------------------------------------------------------------------------
(* Bounds of the model.                                                    *)

\* Largest number of unit factors over all operands of one run.
MaxFactors == 3

-----------------------------------------------------------------------------
(* Rational numbers <<numerator, denominator>>, reduced, denominator > 0.  *)
(* They model both Exponent (Ratio<i128>) and, exactly, Number.            *)

Abs(n) == IF n < 0 THEN -n ELSE n

RECURSIVE GcdNat(_, _)
GcdNat(x, y) == IF y = 0 THEN x ELSE GcdNat(y, x % y)

\* Integer::gcd: never negative, and gcd(0, 0) = 0.
Gcd(x, y) == GcdNat(Abs(x), Abs(y))

Reduce(n, d) ==
  LET g == Gcd(n, d)
      s == IF d < 0 THEN -1 ELSE 1
  IN  <<(s * n) \div g, (s * d) \div g>>

FromInteger(n) == <<n, 1>>
Zero == <<0, 1>>
One == <<1, 1>>

RAdd(x, y) == Reduce(x[1] * y[2] + y[1] * x[2], x[2] * y[2])
RNeg(x) == <<-x[1], x[2]>>
RSub(x, y) == RAdd(x, RNeg(y))
\* The common divisors are taken out before the products are formed.
RMul(x, y) ==
  LET g1 == Gcd(x[1], y[2])
      g2 == Gcd(y[1], x[2])
  IN  <<(x[1] \div g1) * (y[1] \div g2), (x[2] \div g2) * (y[2] \div g1)>>
\* Division; the divisor is not zero.
RDiv(x, y) == RMul(x, IF y[1] < 0 THEN <<-y[2], -y[1]>> ELSE <<y[2], y[1]>>)
RLess(x, y) == x[1] * y[2] < y[1] * x[2]
RMin(x, y) == IF RLess(y, x) THEN y ELSE x
RMax(x, y) == IF RLess(x, y) THEN y ELSE x
IsInteger(x) == x[2] = 1
\* Ratio::to_integer truncates toward zero.
ToInteger(x) == IF x[1] < 0 THEN -((-x[1]) \div x[2]) ELSE x[1] \div x[2]

RECURSIVE IntPow(_, _)
IntPow(x, n) ==
  IF n = 0 THEN One
  ELSE IF n % 2 = 1 THEN RMul(x, IntPow(x, n - 1))
  ELSE IntPow(RMul(x, x), n \div 2)

\* Number::pow with a rational exponent.  The result is exact when the
\* exponent is an integer, and for any exponent when the base is 1; these are
\* the only powers the operands below give rise to.
NumPow(x, e) ==
  CASE x = One -> One
    [] IsInteger(e) /\ e[1] >= 0 -> IntPow(x, e[1])
    [] IsInteger(e) /\ e[1] < 0 -> RDiv(One, IntPow(x, -e[1]))

-----------------------------------------------------------------------------
(* Three-way comparison results and the orderings of the standard library. *)

Less == "Less"
Equal == "Equal"
Greater == "Greater"

IntCmp(x, y) == IF x < y THEN Less ELSE IF x > y THEN Greater ELSE Equal
RCmp(x, y) == IF RLess(x, y) THEN Less ELSE IF RLess(y, x) THEN Greater ELSE Equal

\* Ordering::then
Then(c1, c2) == IF c1 # Equal THEN c1 ELSE c2

-----------------------------------------------------------------------------
(* Prefix: Metric(n) stands for 10^n and Binary(n) for 2^(10 n).           *)

Metric(n) == [kind |-> "Metric", n |-> n]
Binary(n) == [kind |-> "Binary", n |-> n]
PrefixNone == Metric(0)
Kilo == Metric(3)
Deci == Metric(-1)

\* Prefix::factor
PrefixFactor(p) ==
  LET b == IF p.kind = "Metric" THEN FromInteger(10) ELSE FromInteger(1024)
  IN  IF p.n >= 0 THEN IntPow(b, p.n) ELSE RDiv(One, IntPow(b, -p.n))

\* The derived ordering of the enum: the variants in the order of their
\* declaration, then the number.
PrefixCmp(p, q) ==
  Then(IntCmp(IF p.kind = "Metric" THEN 0 ELSE 1, IF q.kind = "Metric" THEN 0 ELSE 1),
       IntCmp(p.n, q.n))

-----------------------------------------------------------------------------
(* UnitIdentifier and UnitFactor.  An identifier is the record             *)
(*   [name, canonical_name, kind, factor, base_unit],                      *)
(* where kind is "Base" or "Derived"; a base identifier has factor 1 and   *)
(* an empty base_unit, which nothing reads.  Equality of identifiers is    *)
(* the derived, structural one: equality of the records.                   *)

BaseId(name, canonical_name) ==
  [name |-> name, canonical_name |-> canonical_name, kind |-> "Base",
   factor |-> One, base_unit |-> <<>>]

DerivedId(name, canonical_name, factor, base_unit) ==
  [name |-> name, canonical_name |-> canonical_name, kind |-> "Derived",
   factor |-> factor, base_unit |-> base_unit]

UnitFactor(prefix, unit_id, exponent) ==
  [unit_id |-> unit_id, prefix |-> prefix, exponent |-> exponent]

is_base(id) == id.kind = "Base"

\* The names of the base units, in the order of String's comparison.
NameOrder == <<"bit", "gram", "meter", "radian", "second">>

NameRank(name) == CHOOSE i \in 1..Len(NameOrder) : NameOrder[i] = name

StrCmp(x, y) == IntCmp(NameRank(x), NameRank(y))

\* Vec<(String, Exponent)>::cmp: lexicographic, a proper prefix is Less.
RECURSIVE KeyCmp(_, _)
KeyCmp(k1, k2) ==
  IF k1 = <<>> /\ k2 = <<>> THEN Equal
  ELSE IF k1 = <<>> THEN Less
  ELSE IF k2 = <<>> THEN Greater
  ELSE Then(Then(StrCmp(k1[1][1], k2[1][1]), RCmp(k1[1][2], k2[1][2])),
            KeyCmp(Tail(k1), Tail(k2)))

RECURSIVE SeqProduct(_)
SeqProduct(s) == IF s = <<>> THEN 1 ELSE s[1] * SeqProduct(Tail(s))

RECURSIVE SeqGcd(_)
SeqGcd(s) == IF Len(s) = 1 THEN s[1] ELSE Gcd(SeqGcd(SubSeq(s, 1, Len(s) - 1)), s[Len(s)])

RECURSIVE Flatten(_)
Flatten(ss) == IF ss = <<>> THEN <<>> ELSE ss[1] \o Flatten(Tail(ss))

-----------------------------------------------------------------------------
(* Product<UnitFactor, false>: a unit is the sequence of its factors.      *)

scalar == <<>>
from_factor(f) == <<f>>

\* Multiplication appends the factors of the right operand; a product of
\* units is canonicalized only on demand.
UnitMul(u, v) == u \o v
UnitPower(u, e) == [i \in 1..Len(u) |-> UnitFactor(u[i].prefix, u[i].unit_id, RMul(u[i].exponent, e))]
UnitDiv(u, v) == UnitMul(u, UnitPower(v, FromInteger(-1)))

\* Unit::new_base and Unit::new_derived
new_base(name, canonical_name) ==
  from_factor(UnitFactor(PrefixNone, BaseId(name, canonical_name), FromInteger(1)))

new_derived(name, canonical_name, factor, base_unit) ==
  from_factor(UnitFactor(PrefixNone, DerivedId(name, canonical_name, factor, base_unit),
                         FromInteger(1)))

\* Unit::with_prefix; the unit is not empty
with_prefix(u, prefix) == [u EXCEPT ![1].prefix = prefix]

-----------------------------------------------------------------------------
(* The units of the repository's tests.                                    *)

meter == new_base("meter", "m")
second == new_base("second", "s")
gram == new_base("gram", "g")
hertz == new_derived("hertz", "Hz", FromInteger(1), UnitPower(second, FromInteger(-1)))
hour == new_derived("hour", "h", FromInteger(3600), second)
bit == new_base("bit", "B")
byte == new_derived("byte", "B", FromInteger(8), bit)
kph == new_derived("kilometer_per_hour", "kph", <<5, 18>>,
                   UnitDiv(meter, second))

-----------------------------------------------------------------------------
(* UnitIdentifier::sort_key and the orderings built on it.                 *)

\* What sort_key returns when it does not return: a debug assertion fails or
\* the division by the common divisor has a zero denominator.  It is no key:
\* no exponent has the denominator 0.
Panic == <<<<"panic", <<0, 0>>>>>>

RECURSIVE sort_key(_)
RECURSIVE canonicalized(_)

\* The key of one factor of a base expression: the key of its identifier
\* with the factor's exponent in the place of the first exponent.
FactorKey(key, exponent) == [key EXCEPT ![1] = <<key[1][1], exponent>>]

\* The key of a derived identifier before it is normalized: the keys of the
\* factors of its canonicalized base expression, one after the other.
KeyOfBase(base) ==
  Flatten([i \in 1..Len(base) |-> FactorKey(sort_key(base[i].unit_id), base[i].exponent)])

RawKey(id) == KeyOfBase(canonicalized(id.base_unit))

\* The same exponents with the sign of the first made positive.
SignNormalized(key) ==
  IF RLess(key[1][2], Zero)
  THEN [i \in 1..Len(key) |-> <<key[i][1], RNeg(key[i][2])>>]
  ELSE key

\* The exponents multiplied by factor.
ScaledBy(key, factor) ==
  [i \in 1..Len(key) |-> <<key[i][1], RMul(key[i][2], FromInteger(factor))>>]

\* The exponents multiplied by the product of their numerators.
Scaled(key) == ScaledBy(key, SeqProduct([i \in 1..Len(key) |-> key[i][2][1]]))

\* The greatest common divisor of the exponents' integer parts.
CommonDivisor(key) == SeqGcd([i \in 1..Len(key) |-> ToInteger(key[i][2])])

\* The exponents divided by the common divisor; the division by zero panics.
DividedBy(key, common_divisor) ==
  IF common_divisor = 0 THEN Panic
  ELSE [i \in 1..Len(key) |-> <<key[i][1], RDiv(key[i][2], FromInteger(common_divisor))>>]

Reduced(key) == DividedBy(key, CommonDivisor(key))

\* The normalization of the key of a derived identifier.
Normalized(key) == IF key = <<>> THEN key ELSE Reduced(Scaled(SignNormalized(key)))

sort_key(id) ==
  IF is_base(id) THEN <<<<id.name, FromInteger(1)>>>> ELSE Normalized(RawKey(id))

\* A factor together with the sort key of its identifier, which the
\* comparisons of a sort read: [factor, key].
Keyed(u) == [i \in 1..Len(u) |-> [factor |-> u[i], key |-> sort_key(u[i].unit_id)]]
Factors(s) == [i \in 1..Len(s) |-> s[i].factor]

\* impl Ord for UnitIdentifier: the comparison of the sort keys of the two
\* identifiers.
IdCmp(x_key, y_key) == KeyCmp(x_key, y_key)

\* The derived ordering of UnitFactor: unit_id, prefix, exponent.
FactorCmp(f, g) ==
  Then(Then(IdCmp(f.key, g.key), PrefixCmp(f.factor.prefix, g.factor.prefix)),
       RCmp(f.factor.exponent, g.factor.exponent))

\* The ordering of the merge keys (Prefix, UnitIdentifier) of two factors.
MergeKeyCmp(f, g) ==
  Then(PrefixCmp(f.factor.prefix, g.factor.prefix), IdCmp(f.key, g.key))

\* merge_key(f) == merge_key(g), the derived equality of the pair.
SameMergeKey(f, g) == f.prefix = g.prefix /\ f.unit_id = g.unit_id

merge(f, g) == UnitFactor(f.prefix, f.unit_id, RAdd(f.exponent, g.exponent))

is_trivial(f) == f.exponent = Zero

-----------------------------------------------------------------------------
(* Product::canonicalize and the equality of units.                        *)

\* Runs of adjacent factors with equal merge keys folded into one factor.
RECURSIVE FoldRuns(_)
FoldRuns(s) ==
  IF Len(s) <= 1 THEN s
  ELSE LET rest == FoldRuns(SubSeq(s, 1, Len(s) - 1))
           last == rest[Len(rest)]
       IN  IF SameMergeKey(last.factor, s[Len(s)].factor)
           THEN [rest EXCEPT ![Len(rest)].factor = merge(last.factor, s[Len(s)].factor)]
           ELSE Append(rest, s[Len(s)])

\* The two orders canonicalize sorts by: that of the merge keys and that of
\* the factors.
SortOrder(by, f, g) == IF by = "merge_key" THEN MergeKeyCmp(f, g) ELSE FactorCmp(f, g)

\* Whether the element at j goes before the element at i.
GoesBefore(order, j, i) == order \in (IF j < i THEN {Less, Equal} ELSE {Less})

\* slice::sort and slice::sort_by_key are stable sorts: an element comes
\* after every element that compares Less than it and after every earlier
\* element that compares Equal to it.
Places(s, by) ==
  [i \in 1..Len(s) |->
     Cardinality({j \in 1..Len(s) : GoesBefore(SortOrder(by, s[j], s[i]), j, i)}) + 1]

Permuted(s, place) == [k \in 1..Len(s) |-> s[CHOOSE i \in 1..Len(s) : place[i] = k]]

StableSort(s, by) == IF Len(s) <= 1 THEN s ELSE Permuted(s, Places(s, by))

DropTrivial(s) == SelectSeq(s, LAMBDA f : ~is_trivial(f.factor))

canonicalized(u) ==
  Factors(StableSort(DropTrivial(FoldRuns(StableSort(Keyed(u), "merge_key"))), "factor"))

\* Equality of units canonicalizes both sides.
UnitEq(u, v) == canonicalized(u) = canonicalized(v)

-----------------------------------------------------------------------------
(* Quantity: a value and a unit.                                           *)

Quantity(value, unit) == [value |-> value, unit |-> unit]
from_unit(unit) == Quantity(One, unit)

\* impl Mul for Quantity, impl Div for Quantity
QuantityMul(q, r) == Quantity(RMul(q.value, r.value), UnitMul(q.unit, r.unit))
QuantityDiv(q, r) == Quantity(RDiv(q.value, r.value), UnitDiv(q.unit, r.unit))

-----------------------------------------------------------------------------
(* The unit algebra: canonicalization, multiplication and division of      *)
(* units built from base and derived identifiers, prefixes and rational    *)
(* exponents.                                                              *)

AlgebraIds == {meter[1].unit_id, second[1].unit_id, hertz[1].unit_id}
AlgebraPrefixes == {PrefixNone, Kilo}
AlgebraExponents == {FromInteger(-1), <<1, 2>>, FromInteger(1)}

AlgebraFactors ==
  {UnitFactor(p, id, e) : p \in AlgebraPrefixes, id \in AlgebraIds, e \in AlgebraExponents}

InitAlgebra ==
  /\ pc = "start"
  /\ out = <<>>
  /\ \E la \in 0..MaxFactors : \E lb \in 0..(MaxFactors - la) :
       \E lc \in 0..(MaxFactors - la - lb) :
         /\ qa \in {from_unit(a) : a \in [1..la -> AlgebraFactors]}
         /\ qb \in {from_unit(b) : b \in [1..lb -> AlgebraFactors]}
         /\ qc \in {from_unit(c) : c \in [1..lc -> AlgebraFactors]}

\* unit.canonicalized()
Canonicalize ==
  /\ pc = "start"
  /\ pc' = "canonicalized"
  /\ out' = [unit |-> canonicalized(qa.unit)]
  /\ UNCHANGED <<qa, qb, qc>>

\* the canonicalized unit canonicalized once more
CanonicalizeAgain ==
  /\ pc = "canonicalized"
  /\ pc' = "canonicalized_again"
  /\ out' = [unit |-> out.unit, again |-> canonicalized(out.unit)]
  /\ UNCHANGED <<qa, qb, qc>>

\* a * b, b * a, (a * b) * c and a * (b * c)
Multiply ==
  /\ pc = "start"
  /\ pc' = "multiplied"
  /\ out' = [ab |-> QuantityMul(qa, qb),
             ba |-> QuantityMul(qb, qa),
             ab_c |-> QuantityMul(QuantityMul(qa, qb), qc),
             a_bc |-> QuantityMul(qa, QuantityMul(qb, qc))]
  /\ UNCHANGED <<qa, qb, qc>>

\* u * scalar and u / u
Divide ==
  /\ pc = "start"
  /\ pc' = "divided"
  /\ out' = [times_scalar |-> UnitMul(qa.unit, scalar),
             by_itself |-> UnitDiv(qa.unit, qa.unit)]
  /\ UNCHANGED <<qa, qb, qc>>

NextAlgebra == Canonicalize \/ CanonicalizeAgain \/ Multiply \/ Divide

SpecAlgebra == InitAlgebra /\ [][NextAlgebra]_vars

\* The three conditions of the canonical form of a unit.
NoTrivialFactor(u) == \A i \in 1..Len(u) : ~is_trivial(u[i])
MergeKeysDistinct(u) ==
  \A i, j \in 1..Len(u) : i # j => ~SameMergeKey(u[i], u[j])
SortedByFactorOrder(u) ==
  \A i, j \in 1..Len(u) : i < j => FactorCmp(Keyed(u)[i], Keyed(u)[j]) # Greater

\* C1: the result of canonicalize has no factor with exponent 0, no two
\* factors with the same (prefix, unit_id) merge key, and its factors are in
\* non-decreasing order of the factor ordering.
C1_CanonicalForm ==
  pc = "canonicalized" =>
    /\ NoTrivialFactor(out.unit)
    /\ MergeKeysDistinct(out.unit)
    /\ SortedByFactorOrder(out.unit)

\* C2: multiplication is commutative and associative up to canonical
\* equality: a * b == b * a and (a * b) * c == a * (b * c).
C2_MulCommutativeAssociative ==
  pc = "multiplied" =>
    /\ out.ab.value = out.ba.value /\ UnitEq(out.ab.unit, out.ba.unit)
    /\ out.ab_c.value = out.a_bc.value /\ UnitEq(out.ab_c.unit, out.a_bc.unit)

\* C3: u * scalar == u for every unit u, and u / u == scalar for every
\* non-empty unit u: the canonical form of u / u is the empty factor list.
C3_IdentityAndInverse ==
  pc = "divided" =>
    /\ UnitEq(out.times_scalar, qa.unit)
    /\ qa.unit # scalar => canonicalized(out.by_itself) = <<>>

-----------------------------------------------------------------------------
(* Reduction of a unit to base units.                                      *)

\* UnitIdentifier::corresponding_base_unit
corresponding_base_unit(id) ==
  IF is_base(id) THEN new_base(id.name, id.canonical_name) ELSE id.base_unit

\* UnitIdentifier::conversion_factor
conversion_factor(id) == IF is_base(id) THEN One ELSE id.factor

RECURSIVE NumProduct(_)
NumProduct(s) == IF s = <<>> THEN One ELSE RMul(s[1], NumProduct(Tail(s)))

RECURSIVE RSum(_)
RSum(s) == IF s = <<>> THEN Zero ELSE RAdd(s[1], RSum(Tail(s)))

\* Unit::to_base_unit_representation: the canonicalized product of the base
\* units of the factors, and the product of (prefix factor * conversion
\* factor) ^ exponent over the factors.
to_base_unit_representation(u) ==
  [unit |-> canonicalized(Flatten([i \in 1..Len(u) |->
              UnitPower(corresponding_base_unit(u[i].unit_id), u[i].exponent)])),
   factor |-> NumProduct([i \in 1..Len(u) |->
              NumPow(RMul(PrefixFactor(u[i].prefix), conversion_factor(u[i].unit_id)),
                     u[i].exponent)])]

-----------------------------------------------------------------------------
(* Quantity operations.  A Result<Quantity> is the record                  *)
(*   [ok, value, unit, actual, target]:                                    *)
(* Ok(Quantity(value, unit)) when ok, and otherwise                        *)
(* Err(IncompatibleUnits(actual, target)).                                 *)

Ok(q) == [ok |-> TRUE, value |-> q.value, unit |-> q.unit,
          actual |-> <<>>, target |-> <<>>]
IncompatibleUnits(actual, target) ==
  [ok |-> FALSE, value |-> Zero, unit |-> <<>>, actual |-> actual, target |-> target]

\* The quantity of an Ok result.
Unwrapped(r) == Quantity(r.value, r.unit)

is_zero(q) == q.value = Zero

\* Quantity::to_base_unit_representation
in_base_units(q, base) == Quantity(RMul(q.value, base.factor), base.unit)

quantity_to_base(q) == in_base_units(q, to_base_unit_representation(q.unit))

\* The factor of the target with the prefix and the identifier of f: the
\* index of the first one, or 0.
Find(target, f) ==
  LET hits == {i \in 1..Len(target) :
                 f.prefix = target[i].prefix /\ f.unit_id = target[i].unit_id}
  IN  IF hits = {} THEN 0 ELSE CHOOSE i \in hits : \A j \in hits : i <= j

\* The loop of convert_to that collects the common unit factors of the
\* canonicalized units self and target.
RECURSIVE common_unit_factors(_, _)
common_unit_factors(self, target) ==
  IF self = <<>> THEN scalar
  ELSE LET before == common_unit_factors(SubSeq(self, 1, Len(self) - 1), target)
           factor == self[Len(self)]
           i == Find(target, factor)
       IN  IF i = 0 THEN before
           ELSE IF RLess(Zero, factor.exponent) /\ RLess(Zero, target[i].exponent)
           THEN UnitMul(before, from_factor(
                  UnitFactor(factor.prefix, factor.unit_id,
                             RMin(factor.exponent, target[i].exponent))))
           ELSE IF RLess(factor.exponent, Zero) /\ RLess(target[i].exponent, Zero)
           THEN UnitMul(before, from_factor(
                  UnitFactor(factor.prefix, factor.unit_id,
                             RMax(factor.exponent, target[i].exponent))))
           ELSE before

\* The condition of the first branch of convert_to.
ConvertsDirectly_equal_units_only(q, target_unit) == UnitEq(q.unit, target_unit)
ConvertsDirectly(q, target_unit) == UnitEq(q.unit, target_unit) \/ is_zero(q)

\* self / Quantity::from_unit(common_unit_factors), unwrapped.
reduced_quantity_not_divided(q, common) == q
reduced_quantity(q, common) == QuantityDiv(q, from_unit(common))

\* The error of the last branch of convert_to.
conversion_error_of_reduced_units(q, target_unit, own_unit_reduced, target_unit_reduced) ==
  IncompatibleUnits(own_unit_reduced, target_unit_reduced)
conversion_error(q, target_unit, own_unit_reduced, target_unit_reduced) ==
  IncompatibleUnits(q.unit, target_unit)

\* The last step of convert_to: the comparison of the base-unit
\* representations of the reduced units.
conversion_result_in_base_units(target_unit, target_base, own_base, quantity_base, error) ==
  IF UnitEq(own_base, target_base.unit)
  THEN Ok(Quantity(quantity_base.value, target_unit))
  ELSE error
conversion_result(target_unit, target_base, own_base, quantity_base, error) ==
  IF UnitEq(own_base, target_base.unit)
  THEN Ok(Quantity(RDiv(quantity_base.value, target_base.factor), target_unit))
  ELSE error

\* convert_to once the common unit factors are known: target_unit_reduced
\* and own_unit_reduced, and their base-unit representations.
convert_reduced(q, target_unit, target_unit_reduced, own_unit_reduced, quantity_base) ==
  conversion_result(target_unit,
                    to_base_unit_representation(target_unit_reduced),
                    to_base_unit_representation(own_unit_reduced).unit,
                    quantity_base,
                    conversion_error(q, target_unit, own_unit_reduced, target_unit_reduced))

convert_with_common(q, target_unit, common) ==
  convert_reduced(q, target_unit,
                  canonicalized(UnitDiv(target_unit, common)),
                  canonicalized(UnitDiv(q.unit, common)),
                  quantity_to_base(reduced_quantity(q, common)))

\* Quantity::convert_to
convert_to(q, target_unit) ==
  IF ConvertsDirectly(q, target_unit)
  THEN Ok(Quantity(q.value, target_unit))
  ELSE convert_with_common(q, target_unit,
                           common_unit_factors(canonicalized(q.unit),
                                               canonicalized(target_unit)))

\* The sum and the difference, or the error of the conversion.
sum_of(q, r) == IF r.ok THEN Ok(Quantity(RAdd(q.value, r.value), q.unit)) ELSE r
difference_of(q, r) == IF r.ok THEN Ok(Quantity(RSub(q.value, r.value), q.unit)) ELSE r

\* impl Add for &Quantity
QuantityAdd_without_conversion(q, rhs) == sum_of(q, Ok(Quantity(rhs.value, q.unit)))
QuantityAdd(q, rhs) == sum_of(q, convert_to(rhs, q.unit))

\* impl Sub for &Quantity
QuantitySub_adding(q, rhs) == QuantityAdd(q, rhs)
QuantitySub(q, rhs) == difference_of(q, convert_to(rhs, q.unit))

\* The derived equality of Quantity: equal values and equal units.
QuantityEq(q, r) == q.value = r.value /\ UnitEq(q.unit, r.unit)

-----------------------------------------------------------------------------
(* Quantity::full_simplify.  Its result is [ok, value, unit]; ok is FALSE  *)
(* when the conversion of a group is an Err, which unwrap() turns into a   *)
(* panic.                                                                  *)

\* The first exponent of the base unit of the factor's identifier, or 1.
removed_exponent(u) ==
  LET base_unit == corresponding_base_unit(u.unit_id)
  IN  IF base_unit # <<>> THEN base_unit[1].exponent ELSE FromInteger(1)

\* Itertools::group_by on the sort key: the runs of adjacent factors whose
\* identifiers have equal sort keys; s is a sequence of keyed factors.
RECURSIVE group_by(_)
group_by(s) ==
  IF s = <<>> THEN <<>>
  ELSE LET before == group_by(SubSeq(s, 1, Len(s) - 1))
           f == s[Len(s)]
       IN  IF before # <<>> /\ before[Len(before)][1].key = f.key
           THEN [before EXCEPT ![Len(before)] = Append(@, f)]
           ELSE Append(before, <<f>>)

\* The comparison of max_by: is_base, then the exponent.
RepresentativeCmp(f1, f2) ==
  Then(IntCmp(IF is_base(f1.unit_id) THEN 1 ELSE 0, IF is_base(f2.unit_id) THEN 1 ELSE 0),
       RCmp(f1.exponent, f2.exponent))

\* Iterator::max_by returns the last of the maximal elements.
group_representative_first(group) == group[1]
group_representative(group) ==
  group[CHOOSE i \in 1..Len(group) :
          \A j \in 1..Len(group) :
            /\ j < i => RepresentativeCmp(group[j], group[i]) # Greater
            /\ j > i => RepresentativeCmp(group[j], group[i]) = Less]

\* The unit a group is converted to: its representative with the combined
\* exponent.
group_target_unit(group) ==
  LET rep == group_representative(group)
      exponent == RSum([i \in 1..Len(group) |->
                    RDiv(RMul(group[i].exponent, removed_exponent(group[i])),
                         removed_exponent(rep))])
  IN  from_factor(UnitFactor(rep.prefix, rep.unit_id, exponent))

\* The unit a group contributes to the simplified unit, and the value of
\* the simplified quantity.
group_contribution_unchanged(group_as_unit, target_unit) == group_as_unit
group_contribution(group_as_unit, target_unit) == target_unit

simplified_value_without_factor(q, factor) == q.value
simplified_value(q, factor) == RMul(q.value, factor)

\* A group converted to its target unit, with the unit it contributes.
group_conversion(group_as_unit, target_unit) ==
  [converted |-> convert_to(from_unit(group_as_unit), target_unit),
   unit |-> group_contribution(group_as_unit, target_unit)]

\* One pass of the loop: the factor and the simplified unit after a group;
\* ok is FALSE once the conversion of a group has failed.
after_group(before, group) ==
  IF ~before.ok \/ ~group.converted.ok
  THEN [ok |-> FALSE, factor |-> One, unit |-> scalar]
  ELSE [ok |-> TRUE,
        factor |-> RMul(before.factor, group.converted.value),
        unit |-> UnitMul(before.unit, group.unit)]

\* The loop over the groups: the product of the target units and of the
\* values of the converted groups.
RECURSIVE simplify_groups(_)
simplify_groups(groups) ==
  IF groups = <<>> THEN [ok |-> TRUE, factor |-> One, unit |-> scalar]
  ELSE after_group(simplify_groups(SubSeq(groups, 1, Len(groups) - 1)),
                   group_conversion(Factors(groups[Len(groups)]),
                                    group_target_unit(Factors(groups[Len(groups)]))))

\* The first step of full_simplify: the conversion to a scalar.
scalar_result_of_no_quantity(q) == IncompatibleUnits(q.unit, scalar)
scalar_result(q) == convert_to(q, scalar)

\* The quantity full_simplify returns after the loop.
simplified(q, r) ==
  IF r.ok
  THEN [ok |-> TRUE, value |-> simplified_value(q, r.factor), unit |-> canonicalized(r.unit)]
  ELSE [ok |-> FALSE, value |-> Zero, unit |-> scalar]

\* The result of the first step, or that of the loop.
first_ok(scalar_res, simplified_res) ==
  IF scalar_res.ok
  THEN [ok |-> TRUE, value |-> scalar_res.value, unit |-> scalar_res.unit]
  ELSE simplified_res

full_simplify(q) ==
  first_ok(scalar_result(q),
           simplified(q, simplify_groups(group_by(Keyed(canonicalized(q.unit))))))

-----------------------------------------------------------------------------
(* Quantities of the units of the tests: bit and byte, second and hertz,   *)
(* to the powers 1 and -1, and decibit, decibit^2 and decibyte^-1.         *)

QuantityIds == {bit[1].unit_id, byte[1].unit_id, second[1].unit_id, hertz[1].unit_id}

QuantityFactors ==
  {UnitFactor(PrefixNone, id, e) : id \in QuantityIds,
                                   e \in {FromInteger(-1), FromInteger(1)}}
  \cup {UnitFactor(Deci, bit[1].unit_id, FromInteger(1)),
        UnitFactor(Deci, bit[1].unit_id, FromInteger(2)),
        UnitFactor(Deci, byte[1].unit_id, FromInteger(-1))}

\* The factors of the operands of the conversions, and those of the
\* operands of the additions and subtractions.
ConversionFactors ==
  QuantityFactors \ {UnitFactor(PrefixNone, byte[1].unit_id, FromInteger(-1)),
                     UnitFactor(PrefixNone, second[1].unit_id, FromInteger(-1)),
                     UnitFactor(Deci, byte[1].unit_id, FromInteger(-1))}

ArithmeticFactors ==
  ConversionFactors \ {UnitFactor(Deci, bit[1].unit_id, FromInteger(2)),
                       UnitFactor(PrefixNone, hertz[1].unit_id, FromInteger(1))}

Values == {Zero, <<3, 2>>}

\* The units of n factors drawn from a set of factors.
UnitsOfLen(n, factors) == [1..n -> factors]

-----------------------------------------------------------------------------
(* Conversion: qa.convert_to(qb.unit), and the result converted back to    *)
(* qa.unit.                                                                *)

InitConvert ==
  /\ pc = "start"
  /\ out = <<>>
  /\ qc = from_unit(scalar)
  /\ \E la \in 0..MaxFactors : \E lb \in 0..(MaxFactors - la) :
       /\ qa \in {Quantity(v, u) : v \in Values, u \in UnitsOfLen(la, ConversionFactors)}
       /\ qb \in {from_unit(u) : u \in UnitsOfLen(lb, ConversionFactors)}

ConvertTo ==
  /\ pc = "start"
  /\ pc' = "converted"
  /\ out' = [there |-> convert_to(qa, qb.unit)]
  /\ UNCHANGED <<qa, qb, qc>>

ConvertBack ==
  /\ pc = "converted"
  /\ out.there.ok
  /\ pc' = "converted_back"
  /\ out' = [there |-> out.there,
             back |-> convert_to(Unwrapped(out.there), qa.unit)]
  /\ UNCHANGED <<qa, qb, qc>>

NextConvert == ConvertTo \/ ConvertBack

SpecConvert == InitConvert /\ [][NextConvert]_vars

\* The base-unit representations of two units are the same.
SameBaseUnits(u, v) ==
  to_base_unit_representation(u).unit = to_base_unit_representation(v).unit

\* The conversion factor of a unit to its base-unit representation.
k(u) == to_base_unit_representation(u).factor

\* C4: convert_to on a quantity whose value is not zero and whose unit's
\* base-unit representation differs from the target's returns the error
\* IncompatibleUnits(self.unit, target) with the original units, never a
\* quantity.
C4_IncompatibleUnitsError ==
  pc = "converted" /\ ~is_zero(qa) /\ ~SameBaseUnits(qa.unit, qb.unit) =>
    /\ ~out.there.ok
    /\ out.there.actual = qa.unit
    /\ out.there.target = qb.unit

\* An incompatible conversion in which the two units have common factors,
\* so that the reduced units differ from the original ones.
C4_Witness ==
  /\ pc = "converted"
  /\ ~is_zero(qa)
  /\ ~SameBaseUnits(qa.unit, qb.unit)
  /\ ~out.there.ok
  /\ common_unit_factors(canonicalized(qa.unit), canonicalized(qb.unit)) # scalar

\* C5: for every quantity with value 0 and every target unit, compatible or
\* not, convert_to succeeds and returns value 0 with exactly the target unit.
C5_ZeroConvertsToAnyUnit ==
  pc = "converted" /\ is_zero(qa) =>
    /\ out.there.ok
    /\ out.there.value = Zero
    /\ out.there.unit = qb.unit

\* A zero-valued quantity converted to a unit of another dimension.
C5_Witness ==
  /\ pc = "converted"
  /\ is_zero(qa)
  /\ ~SameBaseUnits(qa.unit, qb.unit)
  /\ out.there.ok

\* C6: for q = (v, original) and a unit u with the same base-unit
\* representation, q.convert_to(u) succeeds, converting the result back to
\* original succeeds, and the final quantity has value v and unit original.
C6_ConversionRoundTrip ==
  SameBaseUnits(qa.unit, qb.unit) =>
    /\ pc = "converted" => out.there.ok
    /\ pc = "converted_back" =>
         /\ out.back.ok
         /\ out.back.value = qa.value
         /\ out.back.unit = qa.unit

\* A round trip through a unit with another conversion factor, the two
\* units sharing a factor whose own conversion factor is not 1.
C6_Witness ==
  /\ pc = "converted_back"
  /\ SameBaseUnits(qa.unit, qb.unit)
  /\ ~is_zero(qa)
  /\ out.there.value # qa.value
  /\ out.back.ok
  /\ k(common_unit_factors(canonicalized(qa.unit), canonicalized(qb.unit))) # One

-----------------------------------------------------------------------------
(* Simplification: qa.full_simplify(), then either the simplification of   *)
(* the result or its conversion back to qa.unit.                           *)

InitSimplify ==
  /\ pc = "start"
  /\ out = <<>>
  /\ qb = from_unit(scalar)
  /\ qc = from_unit(scalar)
  /\ \E la \in 0..MaxFactors :
       qa \in {Quantity(v, u) : v \in Values, u \in UnitsOfLen(la, QuantityFactors)}

FullSimplify ==
  /\ pc = "start"
  /\ pc' = "simplified"
  /\ out' = [simplified |-> full_simplify(qa)]
  /\ UNCHANGED <<qa, qb, qc>>

SimplifyAgain ==
  /\ pc = "simplified"
  /\ out.simplified.ok
  /\ pc' = "simplified_again"
  /\ out' = [simplified |-> out.simplified,
             again |-> full_simplify(Unwrapped(out.simplified))]
  /\ UNCHANGED <<qa, qb, qc>>

SimplifiedBack ==
  /\ pc = "simplified"
  /\ out.simplified.ok
  /\ pc' = "simplified_back"
  /\ out' = [simplified |-> out.simplified,
             back |-> convert_to(Unwrapped(out.simplified), qa.unit)]
  /\ UNCHANGED <<qa, qb, qc>>

NextSimplify == FullSimplify \/ SimplifyAgain \/ SimplifiedBack

SpecSimplify == InitSimplify /\ [][NextSimplify]_vars

\* C7: full_simplify is idempotent: it returns for every quantity q, and
\* full_simplify(full_simplify(q)) has the value of full_simplify(q) and a
\* canonically equal unit.
C7_FullSimplifyIdempotent ==
  /\ pc = "simplified" => out.simplified.ok
  /\ pc = "simplified_again" =>
       /\ out.again.ok
       /\ QuantityEq(out.again, out.simplified)

\* A quantity that is not a scalar and has a group of several factors, one
\* of them derived, simplified to a quantity of another value, and that
\* simplified again.
C7_Witness ==
  /\ pc = "simplified_again"
  /\ out.again.ok
  /\ out.simplified.unit # scalar
  /\ out.simplified.value # qa.value
  /\ Len(out.simplified.unit) < Len(canonicalized(qa.unit))
  /\ \E i \in 1..Len(qa.unit) : ~is_base(qa.unit[i].unit_id)

\* C8: full_simplify preserves the physical quantity: for every quantity q,
\* full_simplify(q).convert_to(q.unit) succeeds and has the value of q.
C8_FullSimplifyPreservesQuantity ==
  /\ pc = "simplified" => out.simplified.ok
  /\ pc = "simplified_back" =>
       /\ out.back.ok
       /\ out.back.value = qa.value

\* A quantity whose simplification multiplied the value by a factor other
\* than 1 and left a unit, converted back to its unit.
C8_Witness ==
  /\ pc = "simplified_back"
  /\ out.back.ok
  /\ ~is_zero(qa)
  /\ out.simplified.unit # scalar
  /\ out.simplified.value # qa.value

-----------------------------------------------------------------------------
(* Addition and subtraction: qa + qb and qb + qa, then qb + qa converted   *)
(* to qa.unit; and qa - qb.                                                *)

InitArith ==
  /\ pc = "start"
  /\ out = <<>>
  /\ qc = from_unit(scalar)
  /\ \E la \in 0..MaxFactors : \E lb \in 0..(MaxFactors - la) :
       /\ qa \in {Quantity(v, u) : v \in Values, u \in UnitsOfLen(la, ArithmeticFactors)}
       /\ qb \in {Quantity(v, u) : v \in Values, u \in UnitsOfLen(lb, ArithmeticFactors)}

Add ==
  /\ pc = "start"
  /\ pc' = "added"
  /\ out' = [result |-> QuantityAdd(qa, qb), reversed |-> QuantityAdd(qb, qa)]
  /\ UNCHANGED <<qa, qb, qc>>

ConvertReversed ==
  /\ pc = "added"
  /\ out.reversed.ok
  /\ pc' = "added_converted"
  /\ out' = [result |-> out.result,
             reversed |-> out.reversed,
             reversed_in_unit |-> convert_to(Unwrapped(out.reversed), qa.unit)]
  /\ UNCHANGED <<qa, qb, qc>>

Sub ==
  /\ pc = "start"
  /\ pc' = "subtracted"
  /\ out' = [result |-> QuantitySub(qa, qb)]
  /\ UNCHANGED <<qa, qb, qc>>

NextArith == Add \/ ConvertReversed \/ Sub

SpecArith == InitArith /\ [][NextArith]_vars

\* C9: addition is commutative up to canonical equality: for quantities a
\* and b of mutually convertible units, a + b == b + a, that is, the two sums
\* have equal values and canonically equal units.
C9_AddCommutative ==
  pc = "added" /\ SameBaseUnits(qa.unit, qb.unit) =>
    /\ out.result.ok
    /\ out.reversed.ok
    /\ QuantityEq(out.result, out.reversed)

\* C9, amended: for quantities a and b of mutually convertible units, a + b
\* and b + a both succeed, a + b has the unit of a and b + a the unit of b,
\* b + a converted to the unit of a has the value of a + b, and a + b == b + a
\* when the units of a and b are canonically equal.
C9_AddCommutativeUpToConversion ==
  pc \in {"added", "added_converted"} /\ SameBaseUnits(qa.unit, qb.unit) =>
    /\ out.result.ok
    /\ out.reversed.ok
    /\ out.result.unit = qa.unit
    /\ out.reversed.unit = qb.unit
    /\ UnitEq(qa.unit, qb.unit) => QuantityEq(out.result, out.reversed)
    /\ pc = "added_converted" =>
         /\ out.reversed_in_unit.ok
         /\ out.reversed_in_unit.value = out.result.value

\* Two non-zero quantities of convertible, canonically different units
\* whose two sums have different values.
C9_Witness ==
  /\ pc = "added_converted"
  /\ SameBaseUnits(qa.unit, qb.unit)
  /\ ~UnitEq(qa.unit, qb.unit)
  /\ ~is_zero(qa)
  /\ ~is_zero(qb)
  /\ out.result.ok
  /\ out.reversed.ok
  /\ out.result.value # out.reversed.value
  /\ out.reversed_in_unit.value = out.result.value

\* The value of the quantity b in the unit of the quantity a.
ValueIn(b, a) == RDiv(RMul(b.value, k(b.unit)), k(a.unit))

\* C10: a + b and a - b return IncompatibleUnits if the base-unit
\* representations of the units of a and b differ; otherwise they return a
\* quantity of the unit of a whose value is the value of a plus or minus the
\* value of b converted to the unit of a.
C10_ArithmeticRequiresConvertibility ==
  pc \in {"added", "subtracted"} =>
    IF SameBaseUnits(qa.unit, qb.unit)
    THEN /\ out.result.ok
         /\ out.result.unit = qa.unit
         /\ out.result.value = IF pc = "added"
                               THEN RAdd(qa.value, ValueIn(qb, qa))
                               ELSE RSub(qa.value, ValueIn(qb, qa))
    ELSE ~out.result.ok

\* C10, amended: a + b and a - b return IncompatibleUnits(b.unit, a.unit) if
\* the base-unit representations of the units of a and b differ and the value
\* of b is not zero; if the representations are the same they return a
\* quantity of the unit of a whose value is the value of a plus or minus the
\* value of b converted to the unit of a; and if the value of b is zero they
\* return the value of a with the unit of a, whatever the unit of b.
C10_ArithmeticRequiresConvertibilityOfNonZero ==
  pc \in {"added", "subtracted"} =>
    /\ SameBaseUnits(qa.unit, qb.unit) =>
         /\ out.result.ok
         /\ out.result.unit = qa.unit
         /\ out.result.value = IF pc = "added"
                               THEN RAdd(qa.value, ValueIn(qb, qa))
                               ELSE RSub(qa.value, ValueIn(qb, qa))
    /\ ~SameBaseUnits(qa.unit, qb.unit) /\ ~is_zero(qb) =>
         /\ ~out.result.ok
         /\ out.result.actual = qb.unit
         /\ out.result.target = qa.unit
    /\ is_zero(qb) =>
         /\ out.result.ok
         /\ out.result.unit = qa.unit
         /\ out.result.value = qa.value

\* The subtraction of two non-zero quantities of convertible, different
\* units, and the subtraction of a zero of another dimension.
C10_Witness ==
  /\ pc = "subtracted"
  /\ out.result.ok
  /\ ~is_zero(qa)
  /\ \/ /\ SameBaseUnits(qa.unit, qb.unit)
        /\ ~is_zero(qb)
        /\ ValueIn(qb, qa) # qb.value
     \/ /\ ~SameBaseUnits(qa.unit, qb.unit)
        /\ is_zero(qb)

-----------------------------------------------------------------------------
(* Power: qa.power(qb).  The exponents are integers, bare or scaled by the *)
(* factor 8 of byte / bit, so that the powers are exact.                   *)

\* Rational::from_f64 of the float of a number: the number itself when the
\* float is exact, that is, when the denominator is a power of two.  It is
\* None only for floats that are not finite or out of range, which the
\* numbers below never are.
from_f64(x) == CASE x[2] \in {1, 2, 4, 8} -> x

\* Quantity::as_scalar
as_scalar_of_any_unit(q) == Ok(Quantity(q.value, scalar))
as_scalar(q) == convert_to(q, scalar)

\* The quantity power returns for the exponent exponent_as_scalar, or the
\* error as_scalar returned.
raised_to(q, exponent_as_scalar) ==
  IF exponent_as_scalar.ok
  THEN Ok(Quantity(NumPow(q.value, exponent_as_scalar.value),
                   UnitPower(q.unit, from_f64(exponent_as_scalar.value))))
  ELSE exponent_as_scalar

\* Quantity::power
QuantityPower(q, exp) == raised_to(q, as_scalar(exp))

PowerFactors ==
  {UnitFactor(PrefixNone, bit[1].unit_id, FromInteger(1)),
   UnitFactor(PrefixNone, bit[1].unit_id, FromInteger(-1)),
   UnitFactor(PrefixNone, byte[1].unit_id, FromInteger(1)),
   UnitFactor(PrefixNone, second[1].unit_id, FromInteger(1)),
   UnitFactor(PrefixNone, hertz[1].unit_id, FromInteger(1))}

BaseValues == {One, FromInteger(-1)}
ExponentValues == {Zero, FromInteger(3)}

InitPower ==
  /\ pc = "start"
  /\ out = <<>>
  /\ qc = from_unit(scalar)
  /\ \E la \in 0..MaxFactors : \E lb \in 0..(MaxFactors - la) :
       /\ qa \in {Quantity(v, u) : v \in BaseValues, u \in UnitsOfLen(la, PowerFactors)}
       /\ qb \in {Quantity(v, u) : v \in ExponentValues, u \in UnitsOfLen(lb, PowerFactors)}

Power ==
  /\ pc = "start"
  /\ pc' = "powered"
  /\ out' = [result |-> QuantityPower(qa, qb)]
  /\ UNCHANGED <<qa, qb, qc>>

NextPower == Power

SpecPower == InitPower /\ [][NextPower]_vars

-----------------------------------------------------------------------------
(* Sort keys of derived identifiers: the key of the identifier of qa.unit, *)
(* whose base expression is any product of base factors with rational      *)
(* exponents, and the key of the identifier of qb.unit, whose base          *)
(* expression is a power of the first.                                      *)

SortKeyFactors ==
  {UnitFactor(PrefixNone, u[1].unit_id, e) :
     u \in {meter, second, gram},
     e \in {FromInteger(-1), <<1, 2>>, FromInteger(1), <<3, 2>>, FromInteger(2)}}

SortKeyPowers == {FromInteger(-1), <<1, 2>>, FromInteger(2)}

\* debug_assert!(p.1.is_integer()) for every pair p of the scaled key
IntegerExponents(key) == \A i \in 1..Len(key) : IsInteger(key[i][2])

\* sort_key in a build with debug assertions (debug) and in one without:
\* the assertions stop a derived identifier whose scaled exponents are not
\* all integers.
sort_key_built(id, debug) ==
  IF debug /\ ~is_base(id) /\ RawKey(id) # <<>>
        /\ ~IntegerExponents(Scaled(SignNormalized(RawKey(id))))
  THEN Panic
  ELSE sort_key(id)

InitSortKey ==
  /\ pc = "start"
  /\ out = <<>>
  /\ qc = from_unit(scalar)
  /\ \E n \in 1..MaxFactors : \E base \in UnitsOfLen(n, SortKeyFactors) :
       /\ qa = from_unit(new_derived("derived", "d", One, base))
       /\ \E r \in SortKeyPowers :
            qb = from_unit(new_derived("power", "p", One, UnitPower(base, r)))

SortKey ==
  /\ pc = "start"
  /\ pc' = "keyed"
  /\ \E debug \in BOOLEAN :
       out' = [key |-> sort_key_built(qa.unit[1].unit_id, debug),
               power_key |-> sort_key_built(qb.unit[1].unit_id, debug)]
  /\ UNCHANGED <<qa, qb, qc>>

NextSortKey == SortKey

SpecSortKey == InitSortKey /\ [][NextSortKey]_vars

\* C12: sort-key normal form: for every derived unit identifier whose base
\* expression is a non-empty product of distinct base factors with non-zero
\* rational exponents, sort_key() returns without failing and yields one
\* (base_name, exponent) pair per base factor, in which every exponent is an
\* integer, the gcd of the exponents is 1 and the first exponent is
\* positive; the key of an identifier whose base expression is a non-zero
\* rational power of that expression is the same key; and the keys of g m^2
\* and g m^3 differ.
C12_SortKeyNormalForm ==
  pc = "keyed" =>
    LET base == qa.unit[1].unit_id.base_unit
        key == out.key
    IN  (\A i, j \in 1..Len(base) : base[i].unit_id = base[j].unit_id => i = j) =>
          /\ key # Panic
          /\ Len(key) = Len(base)
          /\ {key[i][1] : i \in 1..Len(key)} = {base[i].unit_id.name : i \in 1..Len(base)}
          /\ IntegerExponents(key)
          /\ SeqGcd([i \in 1..Len(key) |-> key[i][2][1]]) = 1
          /\ RLess(Zero, key[1][2])
          /\ out.power_key = key
          /\ sort_key(new_derived("gm2", "gm2", One,
                                  UnitMul(gram, UnitPower(meter, FromInteger(2))))[1].unit_id)
               # sort_key(new_derived("gm3", "gm3", One,
                                      UnitMul(gram, UnitPower(meter, FromInteger(3))))[1].unit_id)

-----------------------------------------------------------------------------
(* The decorator view: the names of the unit qa.name under the decorators  *)
(* qa.decorators.  An alias is [name, accepts_prefix], where accepts_prefix *)
(* is an Option: <<>> for None and <<p>> for Some(p), p an AcceptsPrefix    *)
(* [short, long].                                                           *)

MaxDecorators == 2
MaxAliases == 2

\* AcceptsPrefix::only_long
only_long == [short |-> FALSE, long |-> TRUE]

\* enum Decorator
MetricPrefixes == [kind |-> "MetricPrefixes", aliases |-> <<>>]
BinaryPrefixes == [kind |-> "BinaryPrefixes", aliases |-> <<>>]
Aliases(aliases) == [kind |-> "Aliases", aliases |-> aliases]

\* The loop of name_and_aliases over the decorators: every Aliases decorator
\* assigns aliases_vec its own aliases, each with its policy or only_long.
RECURSIVE aliases_vec(_, _)
aliases_vec(decorators, vec) ==
  IF decorators = <<>> THEN vec
  ELSE aliases_vec(Tail(decorators),
         IF Head(decorators).kind = "Aliases"
         THEN [i \in 1..Len(Head(decorators).aliases) |->
                 [name |-> Head(decorators).aliases[i].name,
                  accepts_prefix |->
                    IF Head(decorators).aliases[i].accepts_prefix = <<>>
                    THEN only_long
                    ELSE Head(decorators).aliases[i].accepts_prefix[1]]]
         ELSE vec)

\* name chained before aliases unless one of them has that name
chained(name, aliases) ==
  IF \E i \in 1..Len(aliases) : aliases[i].name = name
  THEN aliases
  ELSE <<[name |-> name, accepts_prefix |-> only_long]>> \o aliases

name_and_aliases(name, decorators) == chained(name, aliases_vec(decorators, <<>>))

\* The first alias of the first Aliases decorator that has one whose policy
\* is Some(p) with p.short, or unit_name when there is none.
RECURSIVE get_canonical_unit_name(_, _)
get_canonical_unit_name(unit_name, decorators) ==
  IF decorators = <<>> THEN unit_name
  ELSE LET aliases == Head(decorators).aliases
           short == {i \in 1..Len(aliases) :
                       /\ aliases[i].accepts_prefix # <<>>
                       /\ aliases[i].accepts_prefix[1].short}
       IN  IF Head(decorators).kind = "Aliases" /\ short # {}
           THEN aliases[CHOOSE i \in short : \A h \in short : i <= h].name
           ELSE get_canonical_unit_name(unit_name, Tail(decorators))

InitDecorator ==
  /\ pc = "start"
  /\ out = <<>>
  /\ qb = from_unit(scalar)
  /\ qc = from_unit(scalar)
  /\ \E n \in 0..MaxDecorators :
       qa \in [name : {"meter"},
               decorators :
                 [1..n -> {MetricPrefixes, BinaryPrefixes}
                          \cup {Aliases(a) :
                                  a \in UNION {[1..l -> [name : {"meter", "metre", "m"},
                                                         accepts_prefix :
                                                           {<<>>, <<only_long>>,
                                                            <<[short |-> TRUE, long |-> FALSE]>>}]] :
                                               l \in 0..MaxAliases}}]]

NameAndAliases ==
  /\ pc = "start"
  /\ pc' = "named"
  /\ out' = [names |-> name_and_aliases(qa.name, qa.decorators)]
  /\ UNCHANGED <<qa, qb, qc>>

GetCanonicalUnitName ==
  /\ pc = "start"
  /\ pc' = "canonical"
  /\ out' = [canonical |-> get_canonical_unit_name(qa.name, qa.decorators)]
  /\ UNCHANGED <<qa, qb, qc>>

NextDecorator == NameAndAliases \/ GetCanonicalUnitName

SpecDecorator == InitDecorator /\ [][NextDecorator]_vars

\* C13: name_and_aliases(name, decorators), for any decorator sequence: with
\* listed the aliases of all the Aliases decorators of the sequence, in
\* order, each with its own policy or long-only when it has none: if name is
\* not the name of a listed alias, the result is (name, long-only) followed
\* by listed; if it is, the result is listed.  No listed alias is omitted.
C13_NameAndAliases ==
  pc = "named" =>
    LET listed ==
          Flatten([d \in 1..Len(qa.decorators) |->
            [i \in 1..Len(qa.decorators[d].aliases) |->
               [name |-> qa.decorators[d].aliases[i].name,
                accepts_prefix |->
                  IF qa.decorators[d].aliases[i].accepts_prefix = <<>>
                  THEN [short |-> FALSE, long |-> TRUE]
                  ELSE qa.decorators[d].aliases[i].accepts_prefix[1]]]])
    IN  /\ out.names =
             IF \E i \in 1..Len(listed) : listed[i].name = qa.name
             THEN listed
             ELSE <<[name |-> qa.name, accepts_prefix |-> [short |-> FALSE, long |-> TRUE]]>>
                    \o listed
        /\ \A i \in 1..Len(listed) : \E h \in 1..Len(out.names) : out.names[h] = listed[i]

\* C19: the canonical name is a name the lookup table indexes: for every
\* unit name and decorator sequence, the string get_canonical_unit_name
\* returns is the name of one of the pairs name_and_aliases yields, and when
\* it is not the unit name, the policy of such a pair admits short prefixes.
C19_CanonicalNameIsIndexed ==
  pc = "canonical" =>
    \E i \in 1..Len(name_and_aliases(qa.name, qa.decorators)) :
      /\ name_and_aliases(qa.name, qa.decorators)[i].name = out.canonical
      /\ out.canonical # qa.name =>
           name_and_aliases(qa.name, qa.decorators)[i].accepts_prefix.short

-----------------------------------------------------------------------------
(* Simplification of quantities of derived units whose base expressions    *)
(* are stored in another order than the canonical one: meter / second,     *)
(* stored as [meter, second^-1] in one identifier and as                   *)
(* [second^-1, meter] in another.                                          *)

StoredOrderFactors ==
  {UnitFactor(PrefixNone, u[1].unit_id, e) :
     u \in {meter,
            new_derived("meter_per_second", "mps", One,
                        UnitMul(meter, UnitPower(second, FromInteger(-1)))),
            new_derived("per_second_meter", "psm", One,
                        UnitMul(UnitPower(second, FromInteger(-1)), meter))},
     e \in {FromInteger(-1), FromInteger(1)}}

InitStoredOrder ==
  /\ pc = "start"
  /\ out = <<>>
  /\ qb = from_unit(scalar)
  /\ qc = from_unit(scalar)
  /\ \E la \in 0..MaxFactors :
       qa \in {Quantity(v, u) : v \in Values, u \in UnitsOfLen(la, StoredOrderFactors)}

SpecStoredOrder == InitStoredOrder /\ [][NextSimplify]_vars

-----------------------------------------------------------------------------
(* Claims on the results of the operations above and of select inputs.     *)

\* C14: canonicalize is deterministic and idempotent: for every factor
\* sequence s, canonicalize(canonicalize(s)) is the same ordered sequence
\* of factors as canonicalize(s), and a second call on s gives the sequence
\* the first call gave.
C14_CanonicalizeIdempotent ==
  pc = "canonicalized_again" =>
    /\ out.again = out.unit
    /\ canonicalized(qa.unit) = out.unit

\* C15: on the non-scalar path of full_simplify the returned unit has at
\* most one factor per sort key; each factor of it has the prefix and the
\* identifier of a factor of its group (the factors of the canonicalized
\* unit with that sort key) that is maximal by (is_base, exponent), and
\* carries the combined exponent of the group; and every group whose
\* combined exponent is not 0 has its factor in the returned unit.
C15_OneFactorPerSortKey ==
  pc = "simplified" /\ ~convert_to(qa, scalar).ok /\ out.simplified.ok =>
    LET from == Keyed(canonicalized(qa.unit))
        to == Keyed(out.simplified.unit)
        combined(key) ==
          RSum([i \in 1..Len(from) |->
                  IF from[i].key = key
                  THEN RMul(from[i].factor.exponent, removed_exponent(from[i].factor))
                  ELSE Zero])
    IN  /\ \A i, j \in 1..Len(to) : to[i].key = to[j].key => i = j
        /\ \A i \in 1..Len(to) :
             /\ \E r \in 1..Len(from) :
                  /\ from[r].key = to[i].key
                  /\ from[r].factor.prefix = to[i].factor.prefix
                  /\ from[r].factor.unit_id = to[i].factor.unit_id
                  /\ \A g \in 1..Len(from) :
                       from[g].key = to[i].key =>
                         /\ is_base(from[g].factor.unit_id) => is_base(from[r].factor.unit_id)
                         /\ is_base(from[g].factor.unit_id) = is_base(from[r].factor.unit_id)
                              => ~RLess(from[r].factor.exponent, from[g].factor.exponent)
             /\ RMul(to[i].factor.exponent, removed_exponent(to[i].factor))
                  = combined(to[i].key)
        /\ \A g \in 1..Len(from) :
             combined(from[g].key) # Zero => \E i \in 1..Len(to) : to[i].key = from[g].key

\* A simplification on the non-scalar path of a unit with a group of a
\* derived factor followed by a base factor, and with another group.
C15_Witness ==
  /\ pc = "simplified"
  /\ ~convert_to(qa, scalar).ok
  /\ out.simplified.ok
  /\ Len(out.simplified.unit) = 2
  /\ \E i \in 1..(Len(canonicalized(qa.unit)) - 1) :
       /\ ~is_base(canonicalized(qa.unit)[i].unit_id)
       /\ is_base(canonicalized(qa.unit)[i + 1].unit_id)
       /\ sort_key(canonicalized(qa.unit)[i].unit_id)
            = sort_key(canonicalized(qa.unit)[i + 1].unit_id)

\* C16: the cancellation of common factors in convert_to is transparent:
\* for every quantity with a value other than zero and every target unit,
\* convert_to succeeds exactly when the base-unit representations of
\* self.unit and of the target, neither of them reduced, are the same, and
\* then it returns the target unit with the value
\* value * k(self.unit) / k(target).
C16_CancellationIsTransparent ==
  pc = "converted" /\ ~is_zero(qa) =>
    /\ out.there.ok <=> SameBaseUnits(qa.unit, qb.unit)
    /\ out.there.ok =>
         /\ out.there.unit = qb.unit
         /\ out.there.value = RDiv(RMul(qa.value, k(qa.unit)), k(qb.unit))

\* A conversion that cancels a common factor whose conversion factor is not
\* 1, between units that are not equal and have different conversion
\* factors.
C16_Witness ==
  /\ pc = "converted"
  /\ ~is_zero(qa)
  /\ out.there.ok
  /\ ~UnitEq(qa.unit, qb.unit)
  /\ k(qa.unit) # k(qb.unit)
  /\ k(common_unit_factors(canonicalized(qa.unit), canonicalized(qb.unit))) # One

C18_FullSimplifyTotal ==
  pc = "simplified" => out.simplified.ok

=============================================================================
